---- MODULE Spec2Model ----
(***************************************************************************)
(* Model of the CinemaAbyss proxy service                                  *)
(* (src/microservices/proxy/app.py): a Flask application that forwards     *)
(* GET /api/movies to the movies microservice or the monolith, forwards    *)
(* GET /api/events to the events service, and records Prometheus metrics.  *)
(*                                                                         *)
(* Requests are handled concurrently.  A proxied request takes three       *)
(* steps: the handler is entered and the outbound GET is issued; the GET   *)
(* returns or raises and the timer context manager observes the duration;  *)
(* the counter is incremented and the response is produced.  Every         *)
(* prometheus_client operation is atomic (it takes the metric's lock).     *)
(***************************************************************************)
EXTENDS Integers, Sequences, FiniteSets, TLC

VARIABLES
    GRADUAL_MIGRATION,          \* app.py:20, read once at import
    MOVIES_MIGRATION_PERCENT,   \* app.py:19, read once at import
    REQUEST_COUNT,              \* Counter children: (service, endpoint, status) -> value
    RESPONSE_TIME,              \* Histogram children: (service, endpoint) -> number of observations
    outbound,                   \* the requests.get calls issued so far, in order
    req                         \* the inbound requests: route, position, locals, response

vars == <<GRADUAL_MIGRATION, MOVIES_MIGRATION_PERCENT, REQUEST_COUNT,
          RESPONSE_TIME, outbound, req>>

(***************************************************************************)
(* Bounds of the model.                                                    *)
(***************************************************************************)
MaxRequests == 2

Reqs == 1..MaxRequests

\* Values of MOVIES_MIGRATION_PERCENT tried (spec: 0..100).
Percents == {0, 50, 100}

\* What a backend may answer.
UpstreamStatuses == {200, 404, 503}
\* The body a backend sends with each status.
UpstreamBody(s) ==
    IF s = 200 THEN "[{\"id\": 1}]"
    ELSE IF s = 404 THEN "{\"error\": \"not found\"}"
    ELSE ""

(***************************************************************************)
(* Program constants.                                                      *)
(***************************************************************************)
MOVIES_URL == "http://movies-service:8081"
MONOLITH_URL == "http://monolith:8080"
EVENTS_URL == "http://events-service:8082"

\* random.randint(1, 100)
DrawMin == 1
DrawMax == 100
Draws == DrawMin..DrawMax

\* Python's None: an absent header, the default timeout of requests.get
None == "None"

UpstreamContentTypes == {"application/json", None}

\* werkzeug's Response: content_type=None falls back to default_mimetype
\* "text/html", to which the charset is added
DefaultContentType == "text/html; charset=utf-8"
JsonContentType == "application/json"
\* Response(..., mimetype='text/plain')
MetricsContentType == "text/plain; charset=utf-8"

Services == {"microservice", "monolith", "events"}
Endpoints == {"/api/movies", "/api/events"}
Routes == {"/health", "/metrics", "/api/movies", "/api/events", "/api/users"}
\* the statuses a counter child can be labelled with: an upstream status or
\* the literal 500 of the except branches
InternalStatus == 500
UnavailableStatus == 503
OkStatus == 200
LabelStatuses == UpstreamStatuses \cup {InternalStatus}
CountLabels == Services \X Endpoints \X LabelStatuses
TimeLabels == Services \X Endpoints

UnavailableBody == "{\"error\": \"Service temporarily unavailable\"}"
InternalErrorBody == "{\"error\": \"Internal server error\"}"
HealthBody == "{\"status\": \"proxy-service is healthy\"}"
\* jsonify escapes non-ASCII characters
UsersBody == "[\"\\u041f\\u043e\\u043b\\u044c\\u0437\\u043e\\u0432\\u0430\\u0442\\u0435\\u043b\\u044c 1\", \"\\u041f\\u043e\\u043b\\u044c\\u0437\\u043e\\u0432\\u0430\\u0442\\u0435\\u043b\\u044c 2\", \"\\u041f\\u043e\\u043b\\u044c\\u0437\\u043e\\u0432\\u0430\\u0442\\u0435\\u043b\\u044c 3\"]"

(***************************************************************************)
(* Values.                                                                 *)
(***************************************************************************)
\* What requests.get produced: a response, or an exception.
NoResult == [kind |-> "none", status_code |-> 0, content |-> "", content_type |-> None]
UpstreamResponse(s, b, ct) ==
    [kind |-> "response", status_code |-> s, content |-> b, content_type |-> ct]
Raised(k) == [kind |-> k, status_code |-> 0, content |-> "", content_type |-> None]
UpstreamResponses ==
    { UpstreamResponse(s, UpstreamBody(s), ct) :
        s \in UpstreamStatuses, ct \in UpstreamContentTypes }

NoResponse == [status |-> 0, body |-> "", content_type |-> None]

IdleRequest ==
    [route |-> "none", pc |-> "idle", service |-> "none", endpoint |-> "none",
     result |-> NoResult, response |-> NoResponse, samples |-> <<>>, incs |-> <<>>]

\* The shape of the state.
TypeOK ==
    /\ GRADUAL_MIGRATION \in BOOLEAN
    /\ MOVIES_MIGRATION_PERCENT \in Percents
    /\ REQUEST_COUNT \in [CountLabels -> Nat]
    /\ RESPONSE_TIME \in [TimeLabels -> Nat]
    /\ \A i \in DOMAIN outbound :
          outbound[i].req \in Reqs /\ outbound[i].timeout = None
    /\ \A r \in Reqs :
          /\ req[r].route \in Routes \cup {"none"}
          /\ req[r].pc \in {"idle", "calling", "observed", "done"}
          /\ req[r].service \in Services \cup {"none"}
          /\ req[r].result.kind \in
                {"none", "response", "RequestException", "Exception"}

(***************************************************************************)
(* prometheus_client: labels(...).inc() and the exit of labels(...).time() *)
(***************************************************************************)
inc(counter, label) == [counter EXCEPT ![label] = @ + 1]

observe(histogram, label) == [histogram EXCEPT ![label] = @ + 1]

\* History of a request: the labels of the metric children a step touched.
Recorded(old, new) ==
    IF old = new THEN <<>>
    ELSE << CHOOSE l \in DOMAIN old : new[l] # old[l] >>

(***************************************************************************)
(* error_handler: what the wrapper returns when the wrapped function       *)
(* returned `response` (raised = "none") or raised an exception.           *)
(***************************************************************************)
error_handler(raised, response) ==
    IF raised = "none" THEN response
    ELSE IF raised = "RequestException"
         THEN [status |-> UnavailableStatus, body |-> UnavailableBody,
               content_type |-> JsonContentType]
         ELSE [status |-> InternalStatus, body |-> InternalErrorBody,
               content_type |-> JsonContentType]

(***************************************************************************)
(* should_route_to_microservice; d is the value random.randint(1, 100)     *)
(* returns (it is not consulted when GRADUAL_MIGRATION is off).            *)
(***************************************************************************)
RouteUnlessGradual(d) ==
    IF ~GRADUAL_MIGRATION THEN FALSE ELSE d <= MOVIES_MIGRATION_PERCENT

RouteBelowPercent(d) ==
    IF ~GRADUAL_MIGRATION THEN TRUE ELSE d < MOVIES_MIGRATION_PERCENT

should_route_to_microservice(d) ==
    IF ~GRADUAL_MIGRATION THEN TRUE ELSE d <= MOVIES_MIGRATION_PERCENT

(***************************************************************************)
(* flask.Response(content, status=..., content_type=...)                   *)
(***************************************************************************)
FlaskResponse(content, status, content_type) ==
    [status |-> status, body |-> content,
     content_type |-> IF content_type = None THEN DefaultContentType
                      ELSE content_type]

\* requests.get(url): no timeout argument, so timeout=None (wait forever)
RequestsGet(r, url) == [req |-> r, url |-> url, timeout |-> None]

\* Requests are numbered in the order they arrive.
Arrives(r) ==
    /\ req[r].pc = "idle"
    /\ \A q \in 1..(r - 1) : req[q].pc # "idle"

(***************************************************************************)
(* The first step of a proxy handler: the labels are fixed, the timer is   *)
(* started and the outbound GET is issued.                                 *)
(***************************************************************************)
EnterProxy(r, route, service, url) ==
    /\ Arrives(r)
    /\ req' = [req EXCEPT ![r] = [@ EXCEPT !.route = route, !.pc = "calling",
                                           !.service = service,
                                           !.endpoint = route]]
    /\ outbound' = Append(outbound, RequestsGet(r, url))
    /\ UNCHANGED <<GRADUAL_MIGRATION, MOVIES_MIGRATION_PERCENT, REQUEST_COUNT,
                   RESPONSE_TIME>>

(***************************************************************************)
(* The outbound GET ends (a response, a requests exception or another      *)
(* exception) and the `with ... .time()` block is left: the duration is    *)
(* observed whether or not an exception is passing through.                *)
(***************************************************************************)
CallOutcomes ==
    UpstreamResponses \cup {Raised("RequestException"), Raised("Exception")}

LeaveTimer(r, route, res) ==
    /\ req[r].pc = "calling"
    /\ req[r].route = route
    /\ RESPONSE_TIME' =
          observe(RESPONSE_TIME, <<req[r].service, req[r].endpoint>>)
    /\ req' = [req EXCEPT ![r] =
                 [@ EXCEPT !.pc = "observed", !.result = res,
                           !.samples = @ \o Recorded(RESPONSE_TIME,
                                                     RESPONSE_TIME')]]
    /\ UNCHANGED <<GRADUAL_MIGRATION, MOVIES_MIGRATION_PERCENT, REQUEST_COUNT,
                   outbound>>

(***************************************************************************)
(* The except branch of a proxy handler: count status 500, re-raise.       *)
(***************************************************************************)
ExceptCountSkipped(counter, service, endpoint) == counter

ExceptCount(counter, service, endpoint) ==
    inc(counter, <<service, endpoint, InternalStatus>>)

(***************************************************************************)
(* The last step of a proxy handler: the counter increment and the         *)
(* response, or the except branch and error_handler's translation.         *)
(***************************************************************************)
Finish(r, route) ==
    /\ req[r].pc = "observed"
    /\ req[r].route = route
    /\ LET q == req[r]
           res == q.result
           status == IF res.kind = "response" THEN res.status_code
                     ELSE InternalStatus
           counted == IF res.kind = "response"
                      THEN inc(REQUEST_COUNT, <<q.service, q.endpoint, status>>)
                      ELSE ExceptCount(REQUEST_COUNT, q.service, q.endpoint)
           resp == IF res.kind = "response"
                   THEN error_handler("none",
                          FlaskResponse(res.content, res.status_code,
                                        res.content_type))
                   ELSE error_handler(res.kind, NoResponse)
       IN /\ REQUEST_COUNT' = counted
          /\ req' = [req EXCEPT ![r] =
                       [@ EXCEPT !.pc = "done", !.response = resp,
                                 !.incs = @ \o Recorded(REQUEST_COUNT,
                                                         counted)]]
    /\ UNCHANGED <<GRADUAL_MIGRATION, MOVIES_MIGRATION_PERCENT, RESPONSE_TIME,
                   outbound>>

(***************************************************************************)
(* GET /api/movies                                                         *)
(***************************************************************************)
\* service = "microservice" if should_route_to_microservice() else "monolith"
ServiceFor(d) ==
    IF should_route_to_microservice(d) THEN "microservice" ELSE "monolith"

proxy_movies_call(r) ==
    \E service \in {ServiceFor(d) : d \in Draws} :
        EnterProxy(r, "/api/movies", service,
                   IF service = "microservice"
                   THEN MOVIES_URL \o "/api/movies"
                   ELSE MONOLITH_URL \o "/api/movies")

proxy_movies_timed(r) ==
    \E res \in CallOutcomes : LeaveTimer(r, "/api/movies", res)

proxy_movies_return(r) == Finish(r, "/api/movies")

(***************************************************************************)
(* GET /api/events                                                         *)
(***************************************************************************)
proxy_events_call(r) ==
    EnterProxy(r, "/api/events", "events", EVENTS_URL \o "/")

proxy_events_timed(r) ==
    \E res \in CallOutcomes : LeaveTimer(r, "/api/events", res)

proxy_events_return(r) == Finish(r, "/api/events")

(***************************************************************************)
(* GET /health (not wrapped by error_handler)                              *)
(***************************************************************************)
get_health_counted(r) ==
    /\ Arrives(r)
    /\ req' = [req EXCEPT ![r] =
                 [@ EXCEPT !.route = "/health", !.pc = "done",
                           !.response = [status |-> OkStatus, body |-> HealthBody,
                                         content_type |-> JsonContentType]]]
    /\ REQUEST_COUNT' = inc(REQUEST_COUNT, <<"events", "/api/events", OkStatus>>)
    /\ UNCHANGED <<GRADUAL_MIGRATION, MOVIES_MIGRATION_PERCENT, RESPONSE_TIME,
                   outbound>>

get_health(r) ==
    /\ Arrives(r)
    /\ req' = [req EXCEPT ![r] =
                 [@ EXCEPT !.route = "/health", !.pc = "done",
                           !.response = [status |-> OkStatus, body |-> HealthBody,
                                         content_type |-> JsonContentType]]]
    /\ UNCHANGED <<GRADUAL_MIGRATION, MOVIES_MIGRATION_PERCENT, REQUEST_COUNT,
                   RESPONSE_TIME, outbound>>

(***************************************************************************)
(* GET /metrics: generate_latest() renders the registry, or raises.        *)
(***************************************************************************)
generate_latest == <<"exposition", REQUEST_COUNT, RESPONSE_TIME>>

get_metrics(r) ==
    /\ Arrives(r)
    /\ \E fault \in BOOLEAN :
          req' = [req EXCEPT ![r] =
                    [@ EXCEPT !.route = "/metrics", !.pc = "done",
                              !.result = IF fault THEN Raised("Exception")
                                         ELSE NoResult,
                              !.response =
                                  IF fault
                                  THEN error_handler("Exception", NoResponse)
                                  ELSE error_handler("none",
                                         [status |-> OkStatus,
                                          body |-> generate_latest,
                                          content_type |-> MetricsContentType])]]
    /\ UNCHANGED <<GRADUAL_MIGRATION, MOVIES_MIGRATION_PERCENT, REQUEST_COUNT,
                   RESPONSE_TIME, outbound>>

(***************************************************************************)
(* GET /api/users                                                          *)
(***************************************************************************)
get_users(r) ==
    /\ Arrives(r)
    /\ req' = [req EXCEPT ![r] =
                 [@ EXCEPT !.route = "/api/users", !.pc = "done",
                           !.response =
                               error_handler("none",
                                  [status |-> OkStatus, body |-> UsersBody,
                                   content_type |-> JsonContentType])]]
    /\ UNCHANGED <<GRADUAL_MIGRATION, MOVIES_MIGRATION_PERCENT, REQUEST_COUNT,
                   RESPONSE_TIME, outbound>>

(***************************************************************************)
(* The specification.                                                      *)
(***************************************************************************)
Init ==
    /\ GRADUAL_MIGRATION \in BOOLEAN
    /\ MOVIES_MIGRATION_PERCENT \in Percents
    /\ REQUEST_COUNT = [l \in CountLabels |-> 0]
    /\ RESPONSE_TIME = [l \in TimeLabels |-> 0]
    /\ outbound = <<>>
    /\ req = [r \in Reqs |-> IdleRequest]

Next ==
    \E r \in Reqs :
        \/ get_health(r)
        \/ get_metrics(r)
        \/ get_users(r)
        \/ proxy_movies_call(r)
        \/ proxy_movies_timed(r)
        \/ proxy_movies_return(r)
        \/ proxy_events_call(r)
        \/ proxy_events_timed(r)
        \/ proxy_events_return(r)

Spec == Init /\ [][Next]_vars

(***************************************************************************)
(* Vocabulary of the properties.                                           *)
(***************************************************************************)
Proxied(r) == req[r].route \in Endpoints
Done(r) == req[r].pc = "done"
Quiescent == \A r \in Reqs : req[r].pc \in {"idle", "done"}

BaseOf(service) ==
    CASE service = "microservice" -> MOVIES_URL
      [] service = "monolith" -> MONOLITH_URL
      [] service = "events" -> EVENTS_URL

\* The outbound calls issued on behalf of request r.
CallsOf(r) == SelectSeq(outbound, LAMBDA c : c.req = r)

\* The service whose base address a URL starts with.
Paths == {"/", "/api/movies", "/api/events"}
InvokedAt(url) ==
    CHOOSE s \in Services : \E p \in Paths : url = BaseOf(s) \o p

RECURSIVE SumOver(_, _)
SumOver(f, S) ==
    IF S = {} THEN 0
    ELSE LET x == CHOOSE x \in S : TRUE IN f[x] + SumOver(f, S \ {x})
Total(f) == SumOver(f, DOMAIN f)

C2_TransportFailureCounted503 ==
    \A r \in Reqs :
        (Proxied(r) /\ Done(r) /\ req[r].result.kind = "RequestException") =>
            /\ req[r].response.status = 503
            /\ req[r].response.body = UnavailableBody
            /\ req[r].incs = << <<req[r].service, req[r].endpoint, 503>> >>

\* C3: when the outbound call completes, the caller receives exactly the
\* status, body and content-type the backend returned.
C3_ResponseTransparent ==
    \A r \in Reqs :
        (Proxied(r) /\ Done(r) /\ req[r].result.kind = "response") =>
            /\ req[r].response.status = req[r].result.status_code
            /\ req[r].response.body = req[r].result.content
            /\ req[r].response.content_type = req[r].result.content_type

\* C4: with gradual migration disabled, for every percent and every draw,
\* every GET /api/movies is routed to the movies microservice and no call is
\* ever addressed to the monolith.
C4_DisabledAlwaysMicroservice ==
    ~GRADUAL_MIGRATION =>
        /\ \A r \in Reqs :
              req[r].route = "/api/movies" =>
                  /\ req[r].service = "microservice"
                  /\ \A i \in DOMAIN CallsOf(r) :
                        CallsOf(r)[i].url = MOVIES_URL \o "/api/movies"
        /\ \A i \in DOMAIN outbound :
              outbound[i].url # MONOLITH_URL \o "/api/movies"

C4_Witness ==
    /\ ~GRADUAL_MIGRATION
    /\ MOVIES_MIGRATION_PERCENT = 0
    /\ \A r \in Reqs :
          /\ Done(r)
          /\ req[r].route = "/api/movies"
          /\ req[r].service = "microservice"

\* With percent = 100 every movies request so far called the microservice
\* and every sample taken for /api/movies is labelled "microservice".
MoviesStarted == {r \in Reqs : req[r].route = "/api/movies"}
MoviesTimed == {r \in MoviesStarted : req[r].pc \in {"observed", "done"}}
AllMoviesOn(service) ==
    /\ \A r \in MoviesStarted :
          /\ req[r].service = service
          /\ Len(CallsOf(r)) = 1
          /\ CallsOf(r)[1].url = BaseOf(service) \o "/api/movies"
    /\ RESPONSE_TIME[<<service, "/api/movies">>] = Cardinality(MoviesTimed)
    /\ \A s \in Services \ {service} :
          RESPONSE_TIME[<<s, "/api/movies">>] = 0

\* C5: with gradual migration enabled, a GET /api/movies whose draw is d is
\* routed to the microservice iff d <= percent; so with percent = 0 every
\* movies request calls the monolith, and with percent = 100 every one of N
\* movies requests calls the microservice and the N samples are labelled
\* service="microservice", endpoint="/api/movies".
C5_SplitByPercent ==
    [][ GRADUAL_MIGRATION =>
          /\ \A r \in Reqs :
                (req[r].pc = "idle" /\ req'[r].route = "/api/movies") =>
                    \A d \in Draws :
                        (req'[r].service = ServiceFor(d)) =>
                            (req'[r].service = "microservice"
                                <=> d <= MOVIES_MIGRATION_PERCENT)
          /\ MOVIES_MIGRATION_PERCENT = 0 => AllMoviesOn("monolith")'
          /\ MOVIES_MIGRATION_PERCENT = 100 => AllMoviesOn("microservice")'
      ]_vars

C5_Witness ==
    /\ GRADUAL_MIGRATION
    /\ MOVIES_MIGRATION_PERCENT = 100
    /\ \A r \in Reqs : Done(r) /\ req[r].route = "/api/movies"
    /\ RESPONSE_TIME[<<"microservice", "/api/movies">>] = MaxRequests

\* C6: on every public endpoint, a fault that is not a transport failure
\* gives the caller 500 with the internal-error body and is counted by
\* exactly one increment with status 500.
C6_EveryFaultCounted500 ==
    \A r \in Reqs :
        (Done(r) /\ req[r].result.kind = "Exception") =>
            /\ req[r].response.status = 500
            /\ req[r].response.body = InternalErrorBody
            /\ Len(req[r].incs) = 1
            /\ req[r].incs[1][3] = 500

\* C7: a step that handles GET /health or GET /api/users leaves the outbound
\* calls and both metrics unchanged and completes the request with status
\* 200 (for /api/users, with the fixed three-item list), whatever the other
\* requests are doing.
C7_HealthUsersFrame ==
    [][ \A r \in Reqs :
          (req[r].pc = "idle" /\ req'[r].route \in {"/health", "/api/users"}) =>
              /\ UNCHANGED <<outbound, REQUEST_COUNT, RESPONSE_TIME>>
              /\ req'[r].pc = "done"
              /\ req'[r].response.status = 200
              /\ req'[r].samples = <<>> /\ req'[r].incs = <<>>
              /\ req'[r].route = "/api/users" =>
                    req'[r].response.body = UsersBody
      ]_vars

C7_Witness ==
    \E r, q \in Reqs :
        /\ req[r].route = "/api/movies" /\ req[r].pc = "observed"
        /\ q > r /\ Done(q) /\ req[q].route \in {"/health", "/api/users"}
        /\ req[q].response.status = 200

\* C8: every outbound call is issued with a timeout.
C8_OutboundCallsBounded ==
    \A i \in DOMAIN outbound : outbound[i].timeout # None

\* C9: a proxied request issues exactly one outbound GET, addressed to the
\* chosen backend's base address followed by the request's public path.
C9_OneGetToBasePlusPath ==
    \A r \in Reqs :
        Proxied(r) =>
            /\ Len(CallsOf(r)) = 1
            /\ CallsOf(r)[1].url = BaseOf(req[r].service) \o req[r].route

\* C10: once the proxied requests in flight have completed, K of them in
\* all, the counters sum to K, the duration samples number K, and each
\* (service, endpoint, status) counter equals the number of completed
\* requests that invoked that service on that endpoint and ended with that
\* status.
CompletedProxied == {r \in Reqs : Proxied(r) /\ Done(r)}
C10_ExactlyOnceAttribution ==
    Quiescent =>
        /\ Total(REQUEST_COUNT) = Cardinality(CompletedProxied)
        /\ Total(RESPONSE_TIME) = Cardinality(CompletedProxied)
        /\ \A l \in CountLabels :
              REQUEST_COUNT[l] =
                 Cardinality({r \in CompletedProxied :
                                 /\ req[r].service = l[1]
                                 /\ req[r].endpoint = l[2]
                                 /\ req[r].response.status = l[3]})

====
